---- MODULE Spec2Model ----
(***************************************************************************)
(* Model of the Blockscout enrichment pipeline of src/main.py:             *)
(* fetch_blockscout_data (retrying HTTP client), BlockscoutResponse        *)
(* (decoder), map_blockscout_to_open_labels (mapper), process_contract     *)
(* (per-record unit of work) and process_contracts (thread-pool dispatcher *)
(* and statistics).                                                        *)
(*                                                                         *)
(* Three specifications share the module:                                  *)
(*   Spec      the whole pipeline on a short input list, record by record; *)
(*   SpecMap   the decoder and the mapper as pure functions over a product *)
(*             of response bodies;                                         *)
(*   SpecPool  the thread pool of process_contracts with more tasks than   *)
(*             workers, tasks counted by phase.                            *)
(***************************************************************************)
EXTENDS Integers, Sequences, FiniteSets, TLC

VARIABLES
    \* ---- Spec: process_contracts on a list of Contract objects
    contracts,            \* the Contract objects of the input list (mutated in place)
    seed,                 \* the same list as it was passed in (never changes)
    max_queries,          \* argument of process_contracts
    mainpc,               \* position of the calling thread in process_contracts
    submitted,            \* number of executor.submit calls made so far
    task,                 \* per record: position of its process_contract call
    attempt,              \* per record: completed iterations of the retry loop
    requests,             \* per record: number of requests.get calls issued
    delays,               \* per record: number of time.sleep(retry_delay) calls
    seen,                 \* per record: the kinds of the HTTP results, in order
    raised,               \* per record: the exception that reached process_contract
    reported,             \* per record: the branch of process_contract that ended it
    processed_contracts,  \* the output list (indices of Contract objects)
    stats,                \* ProcessingStats
    \* ---- SpecMap: one application of the decoder and the mapper
    mapPc,                \* "input", "applied", "reapplied"
    mapContract,          \* the Contract given to the mapper
    mapJson,              \* the JSON object of the response
    mapOut,               \* result of the mapper on mapContract
    mapAgain,             \* result of the mapper on the Contract of mapOut
    \* ---- SpecPool: the thread pool, tasks counted by phase
    poolSubmitted, poolQueued, poolRequesting, poolDelaying, poolDone

mainVars == <<contracts, seed, max_queries, mainpc, submitted, task, attempt,
              requests, delays, seen, raised, reported, processed_contracts, stats>>
mapVars  == <<mapPc, mapContract, mapJson, mapOut, mapAgain>>
poolVars == <<poolSubmitted, poolQueued, poolRequesting, poolDelaying, poolDone>>
vars     == <<mainVars, mapVars, poolVars>>

(***************************************************************************)
(* Bounds of the model.                                                    *)
(***************************************************************************)
MaxContracts == 2     \* longest input list of Spec
MaxQueries   == 2     \* largest max_queries of Spec
PoolTasks    == 52    \* number of tasks submitted in SpecPool
MaxLiveContracts == 1 \* longest input list of SpecLive

(***************************************************************************)
(* Python values.  A JSON value (and so the value of a Contract field that *)
(* the mapper copies from the response) is tagged with its type; a string  *)
(* is its sequence of characters.                                          *)
(***************************************************************************)
Str(s)  == [t |-> "str",  s |-> s,    b |-> FALSE]
Bool(b) == [t |-> "bool", s |-> <<>>, b |-> b]
Null    == [t |-> "null", s |-> <<>>, b |-> FALSE]
\* a key that the JSON object does not have
Missing == [t |-> "missing", s |-> <<>>, b |-> FALSE]

\* Python truthiness: bool(v), `if v:`, any([...])
Truthy(v) ==
    CASE v.t = "str"  -> v.s # <<>>
      [] v.t = "bool" -> v.b
      [] OTHER        -> FALSE

UpperCase == <<"A","B","C","D","E","F","G","H","I","J","K","L","M",
               "N","O","P","Q","R","S","T","U","V","W","X","Y","Z">>
LowerCase == <<"a","b","c","d","e","f","g","h","i","j","k","l","m",
               "n","o","p","q","r","s","t","u","v","w","x","y","z">>

\* str.lower() on one character
LowerChar(c) ==
    IF \E k \in 1..26 : UpperCase[k] = c
    THEN LowerCase[CHOOSE k \in 1..26 : UpperCase[k] = c]
    ELSE c

\* str.lower()
Lower(s) == [k \in 1..Len(s) |-> LowerChar(s[k])]

\* `sub in s` on strings
Contains(sub, s) ==
    \E k \in 1..(Len(s) - Len(sub) + 1) : SubSeq(s, k, k + Len(sub) - 1) = sub

Proxy   == <<"p","r","o","x","y">>
Erc1967 == <<"e","r","c","1","9","6","7">>

(***************************************************************************)
(* Endpoint registry.                                                      *)
(***************************************************************************)
KnownChains == {"optimism", "polygon_zkevm", "mode", "arbitrum", "zora",
                "base", "zksync_era", "linea", "redstone"}

BLOCKSCOUT_APIS ==
    [k \in KnownChains |->
        CASE k = "optimism"      -> "https://optimism.blockscout.com/api/v2/smart-contracts/"
          [] k = "polygon_zkevm" -> "https://zkevm.blockscout.com/api/v2/smart-contracts/"
          [] k = "mode"          -> "https://explorer.mode.network/api/v2/smart-contracts/"
          [] k = "arbitrum"      -> "https://arbitrum.blockscout.com//api/v2/smart-contracts/"
          [] k = "zora"          -> "https://explorer.zora.energy/api/v2/smart-contracts/"
          [] k = "base"          -> "https://base.blockscout.com/api/v2/smart-contracts/"
          [] k = "zksync_era"    -> "https://zksync.blockscout.com/api/v2/smart-contracts/"
          [] k = "linea"         -> "https://explorer.linea.build/api/v2/smart-contracts/"
          [] k = "redstone"      -> "https://explorer.redstone.xyz/api/v2/smart-contracts/"]

CHAIN_ID_MAP ==
    [k \in KnownChains |->
        CASE k = "optimism"      -> "eip155-10"
          [] k = "polygon_zkevm" -> "eip155-1101"
          [] k = "mode"          -> "eip155-34443"
          [] k = "arbitrum"      -> "eip155-42161"
          [] k = "zora"          -> "eip155-7777777"
          [] k = "base"          -> "eip155-8453"
          [] k = "zksync_era"    -> "eip155-324"
          [] k = "linea"         -> "eip155-59144"
          [] k = "redstone"      -> "eip155-17001"]

\* mutant of DictGet: the key is never found
DictGetAlwaysDefault(d, key, default) == default

\* dict.get(key, default)
DictGet(d, key, default) == IF key \in DOMAIN d THEN d[key] ELSE default

(***************************************************************************)
(* Contract, as process_csv builds it from one row.  chain_id and          *)
(* origin_key, the keys and values of the registry, are kept as whole      *)
(* strings; every other string field is a sequence of characters.          *)
(***************************************************************************)
\* line 92: address.startswith('0x')
StartsWith0x(address) == Len(address) >= 2 /\ SubSeq(address, 1, 2) = <<"0", "x">>

\* lines 91-93
NormalizeAddress(encode) ==
    IF StartsWith0x(encode) THEN encode ELSE <<"0", "x">> \o encode

Contract(address, origin_key) ==
    [address                |-> address,
     chain_id               |-> origin_key,
     name                   |-> Str(<<>>),
     owner_project          |-> <<>>,
     usage_category         |-> <<>>,
     deployment_tx          |-> <<>>,
     deployer_address       |-> <<>>,
     deployment_date        |-> Str(<<>>),
     verified_status        |-> FALSE,
     is_proxy_contract      |-> FALSE,
     proxy_address          |-> Str(<<>>),
     implementation_address |-> Str(<<>>),
     source_repo_url        |-> Str(<<>>),
     origin_key             |-> origin_key]

(***************************************************************************)
(* BlockscoutResponse.__init__ on the keys of the JSON object: a key that   *)
(* names a field                                                           *)
(* sets it, whatever its value; a field without a key keeps the class      *)
(* default; any other key goes to additional_fields.                       *)
(***************************************************************************)
FieldOr(json, key, default) == IF json[key] = Missing THEN default ELSE json[key]

BlockscoutResponse(json) ==
    [name                       |-> FieldOr(json, "name", Str(<<>>)),
     is_verified                |-> FieldOr(json, "is_verified", Bool(FALSE)),
     is_fully_verified          |-> FieldOr(json, "is_fully_verified", Bool(FALSE)),
     is_partially_verified      |-> FieldOr(json, "is_partially_verified", Bool(FALSE)),
     is_verified_via_sourcify   |-> FieldOr(json, "is_verified_via_sourcify", Bool(FALSE)),
     sourcify_repo_url          |-> FieldOr(json, "sourcify_repo_url", Str(<<>>)),
     minimal_proxy_address_hash |-> FieldOr(json, "minimal_proxy_address_hash", Str(<<>>)),
     verified_at                |-> FieldOr(json, "verified_at", Str(<<>>)),
     additional_fields          |-> IF json["implementations"] = Missing
                                    THEN {} ELSE {"implementations"}]

(***************************************************************************)
(* map_blockscout_to_open_labels.  The function assigns field by field to  *)
(* the Contract object it is given; name.lower() raises AttributeError     *)
(* when the name is not a string, and the assignments made before it       *)
(* stay.  The result is the object's final value and whether it raised.    *)
(***************************************************************************)
\* mutant of MapBeforeHeuristic: the proxy hash is also copied to deployer_address
MapBeforeHeuristicSetsDeployer(contract, blockscout_data) ==
    [contract EXCEPT
        !.name = blockscout_data.name,
        !.verified_status = \/ Truthy(blockscout_data.is_verified)
                            \/ Truthy(blockscout_data.is_fully_verified)
                            \/ Truthy(blockscout_data.is_partially_verified)
                            \/ Truthy(blockscout_data.is_verified_via_sourcify),
        !.source_repo_url = blockscout_data.sourcify_repo_url,
        !.is_proxy_contract = Truthy(blockscout_data.minimal_proxy_address_hash),
        !.proxy_address = blockscout_data.minimal_proxy_address_hash,
        !.implementation_address = blockscout_data.minimal_proxy_address_hash,
        !.deployer_address = blockscout_data.minimal_proxy_address_hash.s]

\* lines 118-129
MapBeforeHeuristic(contract, blockscout_data) ==
    [contract EXCEPT
        !.name = blockscout_data.name,
        !.verified_status = \/ Truthy(blockscout_data.is_verified)
                            \/ Truthy(blockscout_data.is_fully_verified)
                            \/ Truthy(blockscout_data.is_partially_verified)
                            \/ Truthy(blockscout_data.is_verified_via_sourcify),
        !.source_repo_url = blockscout_data.sourcify_repo_url,
        !.is_proxy_contract = Truthy(blockscout_data.minimal_proxy_address_hash),
        !.proxy_address = blockscout_data.minimal_proxy_address_hash,
        !.implementation_address = blockscout_data.minimal_proxy_address_hash]

\* mutant of NameHeuristic: the name is searched without lower()
NameHeuristicCaseSensitive(name) ==
    Contains(Proxy, name.s) \/ Contains(Erc1967, name.s)

\* line 132: the condition of the name heuristic, for a name that is a string
NameHeuristic(name) ==
    Contains(Proxy, Lower(name.s)) \/ Contains(Erc1967, Lower(name.s))

\* lines 131-132: contract.name.lower() is evaluated, and the name has no lower()
HeuristicRaises(contract) ==
    ~contract.is_proxy_contract /\ contract.name.t # "str"

\* mutant of MapFromHeuristic: the registry is asked for the chain_id, with the
\* origin_key as the default
MapFromHeuristicByChainId(contract, blockscout_data) ==
    LET c1 == IF ~contract.is_proxy_contract /\ NameHeuristic(contract.name)
              THEN [contract EXCEPT !.is_proxy_contract = TRUE]
              ELSE contract
        c2 == [c1 EXCEPT !.chain_id = DictGet(CHAIN_ID_MAP, c1.chain_id, c1.origin_key)]
    IN  IF Truthy(blockscout_data.verified_at)
        THEN [c2 EXCEPT !.deployment_date = blockscout_data.verified_at]
        ELSE c2

\* lines 131-138
MapFromHeuristic(contract, blockscout_data) ==
    LET c1 == IF ~contract.is_proxy_contract /\ NameHeuristic(contract.name)
              THEN [contract EXCEPT !.is_proxy_contract = TRUE]
              ELSE contract
        c2 == [c1 EXCEPT !.chain_id = DictGet(CHAIN_ID_MAP, c1.origin_key, c1.chain_id)]
    IN  IF Truthy(blockscout_data.verified_at)
        THEN [c2 EXCEPT !.deployment_date = blockscout_data.verified_at]
        ELSE c2

map_blockscout_to_open_labels(contract, blockscout_data) ==
    LET c1 == MapBeforeHeuristic(contract, blockscout_data)
    IN  IF HeuristicRaises(c1)
        THEN [raises |-> TRUE,  contract |-> c1]
        ELSE [raises |-> FALSE, contract |-> MapFromHeuristic(c1, blockscout_data)]

(***************************************************************************)
(* fetch_blockscout_data.  One result of requests.get: the call raises a   *)
(* network error, or returns a response with a status code and a body;     *)
(* response.json() gives a JSON object, gives another JSON value, or       *)
(* raises JSONDecodeError.                                                 *)
(***************************************************************************)
max_retries == 3
retry_delay == 1
max_workers == 50

HttpResult(net, status_code, body, json) ==
    [net |-> net, status_code |-> status_code, body |-> body, json |-> json]

\* the kind of a result, as recorded in `seen`
Class(res) ==
    CASE res.net = "error"                                -> "network_error"
      [] res.status_code = 200 /\ res.body = "object"    -> "200"
      [] res.status_code = 200 /\ res.body = "array"     -> "200_not_object"
      [] res.status_code = 200                            -> "200_undecodable"
      [] res.status_code = 404                            -> "404"
      [] OTHER                                            -> "transient"

\* json.JSONDecodeError (and requests' JSONDecodeError) derive from ValueError
IsValueError(exc) == exc \in {"ValueError", "JSONDecodeError"}

\* mutant of FetchIteration: a 404 is slept on and retried like any other status
FetchIterationRetries404(res) ==
    CASE res.net = "error" ->
            [do |-> "raise", exc |-> "ConnectionError"]
      [] res.net = "ok" /\ res.status_code = 200 /\ res.body = "invalid" ->
            [do |-> "raise", exc |-> "JSONDecodeError"]
      [] res.net = "ok" /\ res.status_code = 200 /\ res.body = "array" ->
            [do |-> "raise", exc |-> "TypeError"]
      [] res.net = "ok" /\ res.status_code = 200 /\ res.body = "object" ->
            [do |-> "return", exc |-> "none"]
      [] OTHER ->
            [do |-> "sleep", exc |-> "none"]

\* lines 108-113: one iteration of the loop on the result of its request
FetchIteration(res) ==
    CASE res.net = "error" ->
            [do |-> "raise", exc |-> "ConnectionError"]
      [] res.net = "ok" /\ res.status_code = 200 /\ res.body = "invalid" ->
            [do |-> "raise", exc |-> "JSONDecodeError"]
      [] res.net = "ok" /\ res.status_code = 200 /\ res.body = "array" ->
            [do |-> "raise", exc |-> "TypeError"]
      [] res.net = "ok" /\ res.status_code = 200 /\ res.body = "object" ->
            [do |-> "return", exc |-> "none"]
      [] res.net = "ok" /\ res.status_code = 404 ->
            [do |-> "raise", exc |-> "ValueError"]
      [] OTHER ->
            [do |-> "sleep", exc |-> "none"]

\* mutant of LoopContinues: the loop bound is off by one
LoopContinuesOneMore(done) == done <= max_retries

\* line 107: the loop runs another iteration after `done` completed ones
LoopContinues(done) == done < max_retries

(***************************************************************************)
(* process_contract.                                                       *)
(***************************************************************************)
\* mutant of UnknownOrigin: the missing endpoint is not checked
UnknownOriginUnchecked(contract) == FALSE

\* lines 143-144: `not api_url`
UnknownOrigin(contract) == contract.origin_key \notin DOMAIN BLOCKSCOUT_APIS

\* mutant of ExceptBranch: only `except ValueError` is there, the rest escapes
ExceptBranchOnlyValueError(exc) == IF IsValueError(exc) THEN "not_found" ELSE "escaped"

\* lines 151-154: the except clause that handles an exception
ExceptBranch(exc) == IF IsValueError(exc) THEN "not_found" ELSE "error"

(***************************************************************************)
(* process_contracts.                                                      *)
(***************************************************************************)
\* mutant of SliceEnd: the slice takes one record more than max_queries
SliceEndInclusive(n, mq) ==
    LET k == IF mq # 0 THEN mq + 1 ELSE n
    IN  IF k < n THEN k ELSE n

\* line 164: contracts[:max_queries or len(contracts)]
SliceEnd(n, mq) ==
    LET k == IF mq # 0 THEN mq ELSE n
    IN  IF k < n THEN k ELSE n

\* mutant of WorkerAvailable: the pool starts one thread too many
WorkerAvailableOneMore(inflight) == inflight <= max_workers

\* line 163: a queued task starts only on one of the max_workers threads
WorkerAvailable(inflight) == inflight < max_workers

\* mutant of Observe: processed_count is raised inside `if contract.name`
ObserveCountsNamedOnly(st, contract) ==
    [st EXCEPT
        !.processed_count = IF Truthy(contract.name) THEN @ + 1 ELSE @,
        !.contracts_with_name = IF Truthy(contract.name) THEN @ + 1 ELSE @,
        !.proxy_contracts = IF contract.is_proxy_contract THEN @ + 1 ELSE @]

\* mutant of Observe: the proxy test is an elif of the name test
ObserveProxyElif(st, contract) ==
    [st EXCEPT
        !.processed_count = @ + 1,
        !.contracts_with_name = IF Truthy(contract.name) THEN @ + 1 ELSE @,
        !.proxy_contracts = IF ~Truthy(contract.name) /\ contract.is_proxy_contract
                            THEN @ + 1 ELSE @]

\* lines 168-172
Observe(st, contract) ==
    [st EXCEPT
        !.processed_count = @ + 1,
        !.contracts_with_name = IF Truthy(contract.name) THEN @ + 1 ELSE @,
        !.proxy_contracts = IF contract.is_proxy_contract THEN @ + 1 ELSE @]

(***************************************************************************)
(* Inputs of Spec.                                                         *)
(***************************************************************************)
Token          == <<"T","o","k","e","n">>
MyERC1967Proxy == <<"M","y","E","R","C","1","9","6","7","P","r","o","x","y">>
ImplHash       == <<"0","x","1","f">>
RepoUrl        == <<"h","t","t","p","s",":","/","/","r">>
VerifiedAt     == <<"2","0","2","4","-","0","1","-","0","2">>

Json(name, is_verified, sourcify, repo, hash, verified_at) ==
    [name                       |-> name,
     is_verified                |-> is_verified,
     is_fully_verified          |-> Missing,
     is_partially_verified      |-> Missing,
     is_verified_via_sourcify   |-> sourcify,
     sourcify_repo_url          |-> repo,
     minimal_proxy_address_hash |-> hash,
     verified_at                |-> verified_at,
     implementations            |-> Missing]

EmptyJson == Json(Missing, Missing, Missing, Missing, Missing, Missing)

\* the JSON objects an explorer answers with in Spec
SpecBodies ==
    { EmptyJson,
      Json(Str(Token), Bool(TRUE), Missing, Str(RepoUrl), Str(ImplHash), Str(VerifiedAt)),
      Json(Str(MyERC1967Proxy), Bool(TRUE), Missing, Missing, Missing, Missing),
      Json(Null, Bool(FALSE), Missing, Missing, Null, Null) }

SpecResults ==
    { HttpResult("error", 0, "none", EmptyJson),
      HttpResult("ok", 404, "none", EmptyJson),
      HttpResult("ok", 500, "none", EmptyJson),
      HttpResult("ok", 429, "none", EmptyJson),
      HttpResult("ok", 200, "invalid", EmptyJson),
      HttpResult("ok", 200, "array", EmptyJson) }
    \cup { HttpResult("ok", 200, "object", j) : j \in SpecBodies }

InputOrigins == {"base", "unknown_chain"}

\* row['encode'] of the i-th row: without the prefix in odd rows, with it in even
Encode(i) == IF i % 2 = 1 THEN <<"a","b","c","1","2","3">>
                          ELSE <<"0","x","d","e","f","4","5","6">>

Address(i) == NormalizeAddress(Encode(i))

PipelineIdle ==
    /\ contracts = <<>> /\ seed = <<>> /\ max_queries = 0
    /\ mainpc = "idle" /\ submitted = 0
    /\ task = <<>> /\ attempt = <<>> /\ requests = <<>> /\ delays = <<>>
    /\ seen = <<>> /\ raised = <<>> /\ reported = <<>>
    /\ processed_contracts = <<>>
    /\ stats = [total_contracts |-> 0, processed_count |-> 0,
                contracts_with_name |-> 0, proxy_contracts |-> 0]

MapIdle ==
    /\ mapPc = "idle"
    /\ mapContract = Contract(Address(1), "base")
    /\ mapJson = EmptyJson
    /\ mapOut = [raises |-> FALSE, contract |-> Contract(Address(1), "base")]
    /\ mapAgain = [raises |-> FALSE, contract |-> Contract(Address(1), "base")]

PoolIdle ==
    /\ poolSubmitted = 0 /\ poolQueued = 0 /\ poolRequesting = 0
    /\ poolDelaying = 0 /\ poolDone = 0

\* lines 159-161: process_contracts is called on a list that process_csv built
Init ==
    /\ \E n \in 0..MaxContracts : \E origin \in [1..n -> InputOrigins] :
          /\ seed = [i \in 1..n |-> Contract(Address(i), origin[i])]
          /\ contracts = seed
          /\ task = [i \in 1..n |-> "new"]
          /\ attempt = [i \in 1..n |-> 0]
          /\ requests = [i \in 1..n |-> 0]
          /\ delays = [i \in 1..n |-> 0]
          /\ seen = [i \in 1..n |-> <<>>]
          /\ raised = [i \in 1..n |-> "none"]
          /\ reported = [i \in 1..n |-> "none"]
          /\ stats = [total_contracts |-> n, processed_count |-> 0,
                      contracts_with_name |-> 0, proxy_contracts |-> 0]
    /\ max_queries \in 0..MaxQueries
    /\ mainpc = "submit"
    /\ submitted = 0
    /\ processed_contracts = <<>>
    /\ MapIdle
    /\ PoolIdle

Prefix == 1..SliceEnd(Len(contracts), max_queries)

InFlight == Cardinality({i \in DOMAIN task : task[i] \in {"fetch", "sleep"}})

\* line 164: executor.submit for the next record of the prefix
Submit ==
    /\ mainpc = "submit"
    /\ submitted + 1 \in Prefix
    /\ submitted' = submitted + 1
    /\ task' = [task EXCEPT ![submitted + 1] = "queued"]
    /\ UNCHANGED <<contracts, seed, max_queries, mainpc, attempt, requests, delays,
                   seen, raised, reported, processed_contracts, stats,
                   mapVars, poolVars>>

\* lines 164-165: every record of the prefix is submitted; as_completed begins
AwaitCompleted ==
    /\ mainpc = "submit"
    /\ submitted + 1 \notin Prefix
    /\ mainpc' = "collect"
    /\ UNCHANGED <<contracts, seed, max_queries, submitted, task, attempt, requests,
                   delays, seen, raised, reported, processed_contracts, stats,
                   mapVars, poolVars>>

\* a pool thread takes the oldest queued task and runs lines 143-146
Start(i) ==
    /\ task[i] = "queued"
    /\ \A j \in 1..(i - 1) : task[j] # "queued"
    /\ WorkerAvailable(InFlight)
    /\ IF UnknownOrigin(contracts[i])
       THEN /\ task' = [task EXCEPT ![i] = "done"]
            /\ reported' = [reported EXCEPT ![i] = "unknown_origin"]
       ELSE /\ task' = [task EXCEPT ![i] = "fetch"]
            /\ UNCHANGED reported
    /\ UNCHANGED <<contracts, seed, max_queries, mainpc, submitted, attempt, requests,
                   delays, seen, raised, processed_contracts, stats,
                   mapVars, poolVars>>

\* lines 108-113 and 150-154: one request, its result, and what follows it
Request(i, res) ==
    /\ task[i] = "fetch"
    /\ requests' = [requests EXCEPT ![i] = @ + 1]
    /\ seen' = [seen EXCEPT ![i] = Append(@, Class(res))]
    /\ LET it == FetchIteration(res)
           m  == map_blockscout_to_open_labels(contracts[i], BlockscoutResponse(res.json))
       IN  CASE it.do = "sleep" ->
                  /\ task' = [task EXCEPT ![i] = "sleep"]
                  /\ delays' = [delays EXCEPT ![i] = @ + 1]
                  /\ UNCHANGED <<contracts, raised, reported>>
             [] it.do = "raise" ->
                  /\ task' = [task EXCEPT ![i] = "done"]
                  /\ raised' = [raised EXCEPT ![i] = it.exc]
                  /\ reported' = [reported EXCEPT ![i] = ExceptBranch(it.exc)]
                  /\ UNCHANGED <<contracts, delays>>
             [] it.do = "return" ->
                  /\ task' = [task EXCEPT ![i] = "done"]
                  /\ contracts' = [contracts EXCEPT ![i] = m.contract]
                  /\ raised' = [raised EXCEPT ![i] =
                                   IF m.raises THEN "AttributeError" ELSE "none"]
                  /\ reported' = [reported EXCEPT ![i] =
                                   IF m.raises THEN ExceptBranch("AttributeError")
                                   ELSE "mapped"]
                  /\ UNCHANGED delays
    /\ UNCHANGED <<seed, max_queries, mainpc, submitted, attempt,
                   processed_contracts, stats,
                   mapVars, poolVars>>

\* lines 113, 107, 115: the sleep ends; next iteration, or the loop is over
Wake(i) ==
    /\ task[i] = "sleep"
    /\ attempt' = [attempt EXCEPT ![i] = @ + 1]
    /\ IF LoopContinues(attempt[i] + 1)
       THEN /\ task' = [task EXCEPT ![i] = "fetch"]
            /\ UNCHANGED <<raised, reported>>
       ELSE /\ task' = [task EXCEPT ![i] = "done"]
            /\ raised' = [raised EXCEPT ![i] = "Exception"]
            /\ reported' = [reported EXCEPT ![i] = ExceptBranch("Exception")]
    /\ UNCHANGED <<contracts, seed, max_queries, mainpc, submitted, requests, delays,
                   seen, processed_contracts, stats,
                   mapVars, poolVars>>

\* lines 165-172: as_completed yields a finished future.  future.result()
\* (line 166) raises again an exception that left process_contract, which
\* ends process_contracts without a result.
Collect(i) ==
    /\ mainpc = "collect"
    /\ task[i] = "done"
    /\ task' = [task EXCEPT ![i] = "collected"]
    /\ IF reported[i] = "escaped"
       THEN /\ mainpc' = "aborted"
            /\ UNCHANGED <<processed_contracts, stats>>
       ELSE /\ processed_contracts' = Append(processed_contracts, i)
            /\ stats' = Observe(stats, contracts[i])
            /\ UNCHANGED mainpc
    /\ UNCHANGED <<contracts, seed, max_queries, submitted, attempt, requests,
                   delays, seen, raised, reported,
                   mapVars, poolVars>>

\* line 176
Return ==
    /\ mainpc = "collect"
    /\ \A i \in Prefix : task[i] = "collected"
    /\ mainpc' = "returned"
    /\ UNCHANGED <<contracts, seed, max_queries, submitted, task, attempt, requests,
                   delays, seen, raised, reported, processed_contracts, stats,
                   mapVars, poolVars>>

Next ==
    \/ Submit
    \/ AwaitCompleted
    \/ \E i \in DOMAIN task : Start(i)
    \/ \E i \in DOMAIN task : \E res \in SpecResults : Request(i, res)
    \/ \E i \in DOMAIN task : Wake(i)
    \/ \E i \in DOMAIN task : Collect(i)
    \/ Return

Spec == Init /\ [][Next]_vars

\* Spec with the scheduling of the program: every thread that can take a step
\* eventually takes one, every request returns and every sleep ends.
InitLive == Init /\ Len(seed) <= MaxLiveContracts

SpecLive == InitLive /\ [][Next]_vars /\ WF_vars(Next)

(***************************************************************************)
(* SpecMap: BlockscoutResponse and map_blockscout_to_open_labels applied   *)
(* once to a Contract that process_csv built and a JSON object drawn from  *)
(* a product of field values.                                              *)
(***************************************************************************)
UpperProxy == <<"P","R","O","X","Y">>
Erc20      == <<"E","R","C","2","0">>

MapNames == {Missing, Null, Str(<<>>), Str(Token), Str(MyERC1967Proxy),
             Str(UpperProxy), Str(Erc1967), Str(Erc20)}

MapBodies ==
    [name                       : MapNames,
     is_verified                : {Missing, Bool(FALSE), Bool(TRUE)},
     is_fully_verified          : {Missing, Bool(TRUE)},
     is_partially_verified      : {Null, Bool(TRUE)},
     is_verified_via_sourcify   : {Bool(FALSE), Bool(TRUE)},
     sourcify_repo_url          : {Missing, Str(RepoUrl)},
     minimal_proxy_address_hash : {Missing, Null, Str(<<>>), Str(ImplHash)},
     verified_at                : {Missing, Null, Str(<<>>), Str(VerifiedAt)},
     implementations            : {Missing, Null}]

MapOrigins == {"base", "optimism", "unknown_chain"}

InitMap ==
    /\ mapPc = "input"
    /\ \E origin \in MapOrigins : mapContract = Contract(Address(1), origin)
    /\ mapJson \in MapBodies
    /\ mapOut = [raises |-> FALSE, contract |-> mapContract]
    /\ mapAgain = [raises |-> FALSE, contract |-> mapContract]
    /\ PipelineIdle
    /\ PoolIdle

\* lines 110 and 150: decode, then map
Apply ==
    /\ mapPc = "input"
    /\ mapPc' = "applied"
    /\ mapOut' = map_blockscout_to_open_labels(mapContract, BlockscoutResponse(mapJson))
    /\ UNCHANGED <<mapContract, mapJson, mapAgain,
                   mainVars, poolVars>>

\* line 150 once more: the mapper on the Contract it returned, same response
Reapply ==
    /\ mapPc = "applied"
    /\ ~mapOut.raises
    /\ mapPc' = "reapplied"
    /\ mapAgain' = map_blockscout_to_open_labels(mapOut.contract,
                                                 BlockscoutResponse(mapJson))
    /\ UNCHANGED <<mapContract, mapJson, mapOut,
                   mainVars, poolVars>>

NextMap ==
    \/ Apply
    \/ Reapply

SpecMap == InitMap /\ [][NextMap]_vars

(***************************************************************************)
(* SpecPool: the ThreadPoolExecutor of process_contracts with PoolTasks    *)
(* tasks.  Tasks are counted by phase: queued, in a request, in a retry    *)
(* delay, finished.  A task's own attempt number is not kept: a delay may  *)
(* end in another request or in the end of the task, which covers every    *)
(* run of fetch_blockscout_data.                                           *)
(***************************************************************************)
InitPool ==
    /\ PoolIdle
    /\ PipelineIdle
    /\ MapIdle

PoolInFlight == poolRequesting + poolDelaying

\* line 164: executor.submit
PoolSubmit ==
    /\ poolSubmitted < PoolTasks
    /\ poolSubmitted' = poolSubmitted + 1
    /\ poolQueued' = poolQueued + 1
    /\ UNCHANGED <<poolRequesting, poolDelaying, poolDone,
                   mainVars, mapVars>>

\* a pool thread takes a queued task: unknown origin, or the first request
PoolStart ==
    /\ poolQueued > 0
    /\ WorkerAvailable(PoolInFlight)
    /\ poolQueued' = poolQueued - 1
    /\ \/ poolDone' = poolDone + 1 /\ UNCHANGED poolRequesting
       \/ poolRequesting' = poolRequesting + 1 /\ UNCHANGED poolDone
    /\ UNCHANGED <<poolSubmitted, poolDelaying,
                   mainVars, mapVars>>

\* the request of a task ends the task, or is followed by time.sleep
PoolRequest ==
    /\ poolRequesting > 0
    /\ poolRequesting' = poolRequesting - 1
    /\ \/ poolDone' = poolDone + 1 /\ UNCHANGED poolDelaying
       \/ poolDelaying' = poolDelaying + 1 /\ UNCHANGED poolDone
    /\ UNCHANGED <<poolSubmitted, poolQueued,
                   mainVars, mapVars>>

\* the sleep ends: next request, or the retries are exhausted
PoolWake ==
    /\ poolDelaying > 0
    /\ poolDelaying' = poolDelaying - 1
    /\ \/ poolRequesting' = poolRequesting + 1 /\ UNCHANGED poolDone
       \/ poolDone' = poolDone + 1 /\ UNCHANGED poolRequesting
    /\ UNCHANGED <<poolSubmitted, poolQueued,
                   mainVars, mapVars>>

NextPool ==
    \/ PoolSubmit
    \/ PoolStart
    \/ PoolRequest
    \/ PoolWake

SpecPool == InitPool /\ [][NextPool]_vars

(***************************************************************************)
(* Properties.                                                             *)
(***************************************************************************)
Min(a, b) == IF a < b THEN a ELSE b
Last(q) == q[Len(q)]
Finished(i) == task[i] \in {"done", "collected"}

\* C1: when process_contracts returns, the output holds
\* min(max_queries or len(input), len(input)) records: every record of the
\* submitted prefix exactly once and no record outside the prefix.
C1_OutputIsSubmittedPrefix ==
    mainpc = "returned" =>
        LET n == Min(IF max_queries = 0 THEN Len(seed) ELSE max_queries, Len(seed))
        IN  /\ Len(processed_contracts) = n
            /\ \A k \in DOMAIN processed_contracts : processed_contracts[k] \in 1..n
            /\ \A r \in 1..n :
                  Cardinality({k \in DOMAIN processed_contracts :
                                  processed_contracts[k] = r}) = 1

C1_Witness ==
    /\ mainpc = "returned"
    /\ Len(seed) = 2
    /\ max_queries = 1
    /\ processed_contracts = <<1>>
    /\ reported[1] = "error"

\* C2: a record whose processing failed in any way (unknown origin, NotFound,
\* ExhaustedRetries, any other failure, also inside the mapper) is emitted
\* equal, field for field, to the input record.
C2_FailedRecordUntouched ==
    \A i \in DOMAIN task :
        (Finished(i) /\ reported[i] # "mapped") => contracts[i] = seed[i]

\* C3: the number of process_contract calls in flight (started and not
\* finished, those in a retry delay included) is at most 50.
C3_AtMostFiftyInFlight == PoolInFlight <= 50

C3_Witness ==
    /\ PoolInFlight = 50
    /\ poolDelaying > 0
    /\ poolQueued > 0

\* C4: when every HTTP response for an address has a transient status,
\* fetch_blockscout_data issues exactly 3 requests and then fails with
\* ExhaustedRetries: no 4th request, no failure before the 3rd.
C4_ThreeRequestsThenExhausted ==
    \A i \in DOMAIN task :
        (\A k \in DOMAIN seen[i] : seen[i][k] = "transient") =>
            /\ requests[i] <= 3
            /\ requests[i] < 3 => raised[i] = "none"
            /\ (Finished(i) /\ requests[i] > 0) =>
                  (requests[i] = 3 /\ raised[i] = "Exception")

C4_Witness ==
    \E i \in DOMAIN task :
        /\ seen[i] = <<"transient", "transient", "transient">>
        /\ requests[i] = 3
        /\ raised[i] = "Exception"
        /\ task[i] = "collected"

\* C5: a network-level failure of a request is retried like a transient
\* status: a failure on attempt 1 or 2 is followed by another request, and
\* the call ends on a network failure only with ExhaustedRetries after the
\* 3rd attempt.
C5_NetworkFailureIsRetried ==
    \A i \in DOMAIN task :
        Finished(i) =>
            \A k \in DOMAIN seen[i] :
                seen[i][k] = "network_error" =>
                    IF k < 3 THEN Len(seen[i]) > k ELSE raised[i] = "Exception"

\* C6: a 200 response whose body cannot be decoded is retried as a transient
\* failure and is never reported as NotFound: the NotFound outcome arises
\* only from an HTTP 404 status.
C6_DecodeFailureIsTransient ==
    \A i \in DOMAIN task :
        /\ raised[i] # "JSONDecodeError"
        /\ reported[i] = "not_found" => Last(seen[i]) = "404"

\* C7: fetch_blockscout_data stops at the first definitive response: no
\* request follows a 200 or a 404, also after one or two transient responses;
\* after a 404 it fails with NotFound, after a 200 with a JSON object it
\* returns the decoded response (the mapper runs); never more than 3 requests.
C7_StopsAtFirstDefinitiveResponse ==
    \A i \in DOMAIN task :
        /\ requests[i] = Len(seen[i])
        /\ requests[i] <= 3
        /\ \A k \in 1..(Len(seen[i]) - 1) : seen[i][k] = "transient"
        /\ (seen[i] # <<>> /\ Last(seen[i]) = "404") =>
              (Finished(i) /\ raised[i] = "ValueError" /\ reported[i] = "not_found")
        /\ (seen[i] # <<>> /\ Last(seen[i]) = "200") =>
              (Finished(i) /\ raised[i] \in {"none", "AttributeError"}
                           /\ reported[i] \in {"mapped", "error"})

C7_Witness ==
    \E i, j \in DOMAIN task :
        /\ seen[i] = <<"transient", "transient", "200">>
        /\ reported[i] = "mapped"
        /\ seen[j] = <<"transient", "404">>
        /\ reported[j] = "not_found"
        /\ mainpc = "returned"

\* C8: for a record whose origin-key is not in the endpoint registry no HTTP
\* request is made and the record is emitted with every field unchanged, its
\* chain-id still equal to its original origin-key.
C8_UnknownOriginPassesThrough ==
    \A i \in DOMAIN task :
        seed[i].origin_key \notin KnownChains =>
            /\ requests[i] = 0
            /\ seen[i] = <<>>
            /\ contracts[i] = seed[i]
            /\ contracts[i].chain_id = seed[i].origin_key
            /\ Finished(i) => reported[i] = "unknown_origin"

C8_Witness ==
    \E i \in DOMAIN task :
        /\ seed[i].origin_key = "unknown_chain"
        /\ task[i] = "collected"
        /\ reported[i] = "unknown_origin"
        /\ contracts[i].chain_id = "unknown_chain"

\* C9: map_blockscout_to_open_labels is total: for every decoded response,
\* also with missing, null or malformed fields, it returns a record and
\* never raises.
C9_MapperNeverRaises == mapPc = "applied" => ~mapOut.raises

\* the names of MapNames that contain "proxy" or "erc1967" in any case
ProxyLikeNames == {MyERC1967Proxy, UpperProxy, Erc1967}

NonEmptyString(v) == v.t = "str" /\ v.s # <<>>

\* C10: is-proxy is true whenever minimal-proxy-address-hash is non-empty,
\* whatever the name; when the hash is empty, is-proxy is true exactly when
\* the name contains "proxy" or "erc1967" in any case.
C10_ProxyPrecedence ==
    mapPc = "applied" =>
        LET hash == mapJson.minimal_proxy_address_hash
            name == mapJson.name
        IN  IF NonEmptyString(hash)
            THEN ~mapOut.raises /\ mapOut.contract.is_proxy_contract
            ELSE mapOut.contract.is_proxy_contract
                    = (name.t = "str" /\ name.s \in ProxyLikeNames)

C10_Witness ==
    /\ mapPc = "applied"
    /\ mapJson.minimal_proxy_address_hash = Str(ImplHash)
    /\ mapJson.name = Str(Token)
    /\ mapOut.contract.is_proxy_contract
    /\ mapOut.contract.name = Str(Token)

\* the record that the field rules of the mapper prescribe for a response
VerificationFlags == {"is_verified", "is_fully_verified",
                      "is_partially_verified", "is_verified_via_sourcify"}

FieldRulesHold(before, data, after) ==
    /\ after.name = data.name
    /\ after.verified_status = (\E f \in VerificationFlags : Truthy(data[f]))
    /\ after.source_repo_url = data.sourcify_repo_url
    /\ after.proxy_address = data.minimal_proxy_address_hash
    /\ after.implementation_address = data.minimal_proxy_address_hash
    /\ after.chain_id = CHAIN_ID_MAP[before.origin_key]
    /\ after.deployment_date = IF NonEmptyString(data.verified_at)
                               THEN data.verified_at
                               ELSE before.deployment_date

\* C11: for every record with a known origin-key and every successful
\* response, the record after the mapper has name = response.name,
\* verified = OR of the four flags, source-repo-url = sourcify-repo-url,
\* proxy-address = implementation-address = minimal-proxy-address-hash,
\* chain-id = the registry's chain-id of the origin-key, and deployment-date =
\* verified-at when that is non-empty, else the previous deployment-date.
C11_MappedFields ==
    (mapPc = "applied" /\ mapContract.origin_key \in KnownChains) =>
        FieldRulesHold(mapContract, BlockscoutResponse(mapJson), mapOut.contract)

\* the field rules of C11 on the responses for which the mapper returns
C11_MappedFieldsWhenMapperReturns ==
    (mapPc = "applied" /\ mapContract.origin_key \in KnownChains /\ ~mapOut.raises) =>
        FieldRulesHold(mapContract, BlockscoutResponse(mapJson), mapOut.contract)

\* C12: whenever process_contracts returns, and after each observed unit of
\* work, stats.processed_count is the length of the output collection, and
\* contracts_with_name and proxy_contracts are at most processed_count.
C12_ProcessedCountIsOutputLength ==
    /\ stats.processed_count = Len(processed_contracts)
    /\ stats.contracts_with_name <= stats.processed_count
    /\ stats.proxy_contracts <= stats.processed_count

C12_Witness ==
    /\ mainpc = "returned"
    /\ Len(processed_contracts) = 2
    /\ stats.processed_count = 2
    /\ stats.contracts_with_name = 1
    /\ stats.proxy_contracts = 1

\* C13: the total counter is the number of records submitted (the prefix
\* bounded by max_queries), so on return stats.total equals stats.processed,
\* also for a max_queries smaller than the input length.
C13_TotalIsSubmitted ==
    mainpc = "returned" =>
        /\ stats.total_contracts = submitted
        /\ stats.total_contracts = stats.processed_count

\* the output records with a non-empty name, and those flagged as proxy
NamedOutputs ==
    {k \in DOMAIN processed_contracts : Truthy(contracts[processed_contracts[k]].name)}
ProxyOutputs ==
    {k \in DOMAIN processed_contracts :
        contracts[processed_contracts[k]].is_proxy_contract}

\* C14: no aggregator update is lost or double-counted: each observed unit
\* raises processed_count by exactly 1, no counter ever decreases, and the
\* counters are the numbers of output records with a non-empty name and
\* flagged is-proxy, so they do not depend on the completion order.
C14_CountersMatchOutput ==
    /\ [](/\ stats.contracts_with_name = Cardinality(NamedOutputs)
          /\ stats.proxy_contracts = Cardinality(ProxyOutputs)
          /\ stats.processed_count
                = Cardinality({i \in DOMAIN task : task[i] = "collected"}))
    /\ [][/\ stats'.processed_count - stats.processed_count
                = Len(processed_contracts') - Len(processed_contracts)
          /\ stats'.processed_count - stats.processed_count \in {0, 1}
          /\ stats'.contracts_with_name >= stats.contracts_with_name
          /\ stats'.proxy_contracts >= stats.proxy_contracts
          /\ stats'.total_contracts = stats.total_contracts]_vars

C14_Witness ==
    /\ mainpc = "returned"
    /\ processed_contracts = <<2, 1>>
    /\ Truthy(contracts[1].name) /\ contracts[1].is_proxy_contract
    /\ Truthy(contracts[2].name) /\ contracts[2].is_proxy_contract
    /\ stats.processed_count = 2
    /\ stats.contracts_with_name = 2
    /\ stats.proxy_contracts = 2

C16_KnownOriginHasCanonicalChainId ==
    mainpc = "returned" =>
        \A k \in DOMAIN processed_contracts :
            LET c == contracts[processed_contracts[k]]
            IN  IF c.origin_key \in KnownChains
                THEN c.chain_id = CHAIN_ID_MAP[c.origin_key]
                ELSE c.chain_id = c.origin_key

\* C16 as amended: the chain-id of an output record is the registry's
\* chain-id of its origin-key exactly when the record was mapped (known
\* origin-key, successful fetch, mapper returned); every other output record
\* (unknown origin-key, NotFound, any failure of the fetch or of the mapper)
\* keeps its initial chain-id, the origin-key.
C16_MappedHasCanonicalChainId ==
    mainpc = "returned" =>
        \A k \in DOMAIN processed_contracts :
            LET i == processed_contracts[k]
                c == contracts[i]
            IN  IF reported[i] = "mapped"
                THEN /\ c.origin_key \in KnownChains
                     /\ c.chain_id = CHAIN_ID_MAP[c.origin_key]
                     /\ c.chain_id # seed[i].chain_id
                ELSE c.chain_id = seed[i].origin_key

C16_Witness ==
    /\ mainpc = "returned"
    /\ Len(processed_contracts) = 2
    /\ seed[1].origin_key = "base" /\ seed[2].origin_key = "base"
    /\ reported[1] = "mapped" /\ contracts[1].chain_id = "eip155-8453"
    /\ reported[2] = "not_found" /\ seen[2] = <<"404">>
    /\ contracts[2].chain_id = "base"

\* C17: the retry delay occurs only between two consecutive attempts: a call
\* of fetch_blockscout_data that made k requests slept k-1 times, so a call
\* that ends in ExhaustedRetries after 3 attempts slept twice, and no delay
\* follows the final attempt.
C17_DelaysOnlyBetweenAttempts ==
    \A i \in DOMAIN task :
        /\ (Finished(i) /\ requests[i] > 0) => delays[i] = requests[i] - 1
        /\ raised[i] = "Exception" => (requests[i] = 3 /\ delays[i] = 2)

\* C18: the mapper is idempotent: for every record and every response on
\* which it succeeds, applying it a second time with the same response to the
\* record it returned succeeds and leaves every field unchanged.
C18_MapperIdempotent ==
    mapPc = "reapplied" =>
        /\ ~mapAgain.raises
        /\ mapAgain.contract = mapOut.contract

C18_Witness ==
    /\ mapPc = "reapplied"
    /\ mapContract.origin_key = "base"
    /\ mapJson.name = Str(MyERC1967Proxy)
    /\ mapJson.verified_at = Str(VerifiedAt)
    /\ mapOut.contract.chain_id = "eip155-8453"
    /\ mapOut.contract.deployment_date = Str(VerifiedAt)
    /\ mapAgain.contract.chain_id = "eip155-8453"
    /\ mapAgain.contract.is_proxy_contract

\* C19: no step of the pipeline changes a record's address, origin-key,
\* deployer-address or deployment-tx: every record's address is its input
\* address and begins with 0x, and deployer-address and deployment-tx are
\* empty, for every outcome of the record.
C19_FrameFields ==
    \A i \in DOMAIN contracts :
        /\ contracts[i].address = seed[i].address
        /\ contracts[i].address[1] = "0" /\ contracts[i].address[2] = "x"
        /\ contracts[i].origin_key = seed[i].origin_key
        /\ contracts[i].deployer_address = <<>>
        /\ contracts[i].deployment_tx = <<>>

C19_Witness ==
    /\ mainpc = "returned"
    /\ Len(processed_contracts) = 2
    /\ reported[1] = "mapped" /\ Truthy(contracts[1].proxy_address)
    /\ contracts[1].address = <<"0","x","a","b","c","1","2","3">>
    /\ reported[2] = "error" /\ raised[2] = "AttributeError"
    /\ contracts[2].address = <<"0","x","d","e","f","4","5","6">>

====
